---- MODULE Spec2Model ----
(***************************************************************************)
(* Model of src/cli.rs: CliExecutor and PrefixedExecutor, the dispatch     *)
(* frontend that turns matches of the line matcher into execution          *)
(* contexts.  Text is a sequence of one-character strings, so that         *)
(* concatenation, prefix tests and trimming are computed, not assumed.     *)
(***************************************************************************)
EXTENDS Integers, Sequences, FiniteSets, TLC

VARIABLES matcher, terminal, scope, phase, last, nctx, failed, ncalls

vars == <<matcher, terminal, scope, phase, last, nctx, failed, ncalls>>

\* Number of operations (calls on the executor, scope ends, new/close) in a run.
MaxCalls == 4

-----------------------------------------------------------------------------
(* Text helpers *)

GetSuffix == <<"/", "g", "e", "t">>

SetSuffix == <<"/", "s", "e", "t">>

IsWhitespace(c) == c = " "

StartsWith(s, p) == Len(p) <= Len(s) /\ SubSeq(s, 1, Len(p)) = p

RECURSIVE TrimStart(_)
TrimStart(s) ==
    IF s # <<>> /\ IsWhitespace(Head(s)) THEN TrimStart(Tail(s)) ELSE s

RECURSIVE TrimEnd(_)
TrimEnd(s) ==
    IF s # <<>> /\ IsWhitespace(s[Len(s)])
    THEN TrimEnd(SubSeq(s, 1, Len(s) - 1))
    ELSE s

\* str::trim
Trim(s) == TrimEnd(TrimStart(s))

-----------------------------------------------------------------------------
(* The line matcher: the engine behind CliLineMatcher, from its contract *)

NoMatchFound == [kind |-> "NoMatchFound", args |-> <<>>]

Match(a) == [kind |-> "Match", args |-> a]

FreshMatcher(l) == [line |-> l, state |-> NoMatchFound, unmatched |-> <<>>]

\* the line is cmd, optionally followed by whitespace-separated arguments
LineMatches(l, cmd) ==
    /\ StartsWith(l, cmd)
    /\ (Len(l) = Len(cmd) \/ IsWhitespace(l[Len(cmd) + 1]))

starts_with(m, prefix) == StartsWith(m.line, prefix)

add_unmatched_prefix(m, prefix) ==
    [m EXCEPT !.unmatched = Append(@, prefix)]

\* After a match the engine evaluates nothing further for the line; a
\* candidate the line is a proper beginning of is a partial match.
match_cmd_str(m, cmd) ==
    IF m.state.kind = "Match"
    THEN [progress |-> "NoMatch", matcher |-> m]
    ELSE IF LineMatches(m.line, cmd)
    THEN [progress |-> "MatchFound",
          matcher |-> [m EXCEPT !.state =
                          Match(SubSeq(m.line, Len(cmd) + 1, Len(m.line)))]]
    ELSE IF StartsWith(cmd, m.line)
    THEN [progress |-> "Partial", matcher |-> m]
    ELSE [progress |-> "NoMatch", matcher |-> m]

get_state(m) == m.state

-----------------------------------------------------------------------------
(* The value parsers callers supply (ValueInput) *)

Parsers == {"int", "text"}

Digits == {"1", "2"}

DigitVal(c) == IF c = "1" THEN 1 ELSE 2

RECURSIVE Decimal(_)
Decimal(s) ==
    IF s = <<>> THEN 0 ELSE 10 * Decimal(SubSeq(s, 1, Len(s) - 1)) + DigitVal(s[Len(s)])

input(parser, text) ==
    IF parser = "text" THEN [ok |-> TRUE, val |-> text, err |-> ""]
    ELSE IF text = <<>> THEN [ok |-> FALSE, val |-> 0, err |-> "empty"]
    ELSE IF \A i \in 1..Len(text) : text[i] \in Digits
    THEN [ok |-> TRUE, val |-> Decimal(text), err |-> ""]
    ELSE [ok |-> FALSE, val |-> 0, err |-> "invalid digit"]

-----------------------------------------------------------------------------
(* CliExecutor *)

None == [type |-> "None"]

CallMatch(cmd) == <<"match_cmd_str", cmd>>

Context(args) == [type |-> "Command", args |-> args, current_path |-> <<>>]

run_command_TrimArgs(m, t, cmd) ==
    LET r == match_cmd_str(m, cmd)
        st == get_state(r.matcher)
    IN  [matcher |-> r.matcher, terminal |-> t,
         calls |-> <<CallMatch(cmd)>>, parsed |-> <<>>,
         ret |-> IF r.progress = "MatchFound" /\ st.kind = "Match"
                 THEN Context(Trim(st.args))
                 ELSE None]

run_command_StateOnly(m, t, cmd) ==
    LET r == match_cmd_str(m, cmd)
        st == get_state(r.matcher)
    IN  [matcher |-> r.matcher, terminal |-> t,
         calls |-> <<CallMatch(cmd)>>, parsed |-> <<>>,
         ret |-> IF st.kind = "Match" THEN Context(st.args) ELSE None]

run_command_NotesMiss(m, t, cmd) ==
    LET r == match_cmd_str(m, cmd)
        st == get_state(r.matcher)
    IN  [matcher |-> IF r.progress = "MatchFound"
                     THEN r.matcher
                     ELSE add_unmatched_prefix(r.matcher, cmd),
         terminal |-> t,
         calls |-> <<CallMatch(cmd)>>, parsed |-> <<>>,
         ret |-> IF r.progress = "MatchFound" /\ st.kind = "Match"
                 THEN Context(st.args)
                 ELSE None]

\* run_command: the result of the call on matcher m and terminal t
run_command(m, t, cmd) ==
    LET r == match_cmd_str(m, cmd)
        st == get_state(r.matcher)
    IN  [matcher |-> r.matcher,
         terminal |-> t,
         calls |-> <<CallMatch(cmd)>>,
         parsed |-> <<>>,
         ret |-> IF r.progress = "MatchFound" /\ st.kind = "Match"
                 THEN Context(st.args)
                 ELSE None]

PropertyContext(type, args, id) ==
    [type |-> type, args |-> args, current_path |-> <<>>, id |-> id,
     style |-> "DelimitedGetSet"]

GetArgs_Trim(st) == IF st.kind = "Match" THEN Trim(st.args) ELSE <<>>

\* the argument text of a Get context
GetArgs(st) == IF st.kind = "Match" THEN st.args ELSE <<>>

SetArgs_NoTrim(st) == IF st.kind = "Match" THEN st.args ELSE <<>>

\* the argument text handed to the parser
SetArgs(st) == IF st.kind = "Match" THEN Trim(st.args) ELSE <<>>

ParseError_Bare(e) == e

ParseError(e) == "Couldn't parse the value: " \o e

Rejected_ClearsMatch(m, t, e) ==
    [matcher |-> [m EXCEPT !.state = NoMatchFound],
     terminal |-> Append(t, ParseError(e))]

\* the Err arm: one print_line on the terminal, the matcher as it is
Rejected(m, t, e) ==
    [matcher |-> m, terminal |-> Append(t, ParseError(e))]

\* run_property from the "{id}/set" attempt on; pre is the engine calls made
PropertySet(m, t, id, parser, pre) ==
    LET r == match_cmd_str(m, id \o SetSuffix)
        args == SetArgs(get_state(r.matcher))
        p == input(parser, args)
        calls == Append(pre, CallMatch(id \o SetSuffix))
        rej == Rejected(r.matcher, t, p.err)
    IN  IF r.progress # "MatchFound"
        THEN [matcher |-> r.matcher, terminal |-> t, calls |-> calls,
              parsed |-> <<>>, ret |-> None]
        ELSE IF p.ok
        THEN [matcher |-> r.matcher, terminal |-> t, calls |-> calls,
              parsed |-> <<args>>,
              ret |-> PropertyContext("Set", args, id) @@ [value |-> p.val]]
        ELSE [matcher |-> rej.matcher, terminal |-> rej.terminal,
              calls |-> calls, parsed |-> <<args>>, ret |-> None]

run_property(m, t, id, parser) ==
    LET r == match_cmd_str(m, id \o GetSuffix)
    IN  IF r.progress = "MatchFound"
        THEN [matcher |-> r.matcher, terminal |-> t,
              calls |-> <<CallMatch(id \o GetSuffix)>>,
              parsed |-> <<>>,
              ret |-> PropertyContext("Get", GetArgs(get_state(r.matcher)), id)]
        ELSE PropertySet(r.matcher, t, id, parser, <<CallMatch(id \o GetSuffix)>>)

with_prefix_AlwaysNotes(m, prefix) ==
    IF starts_with(m, prefix)
    THEN [matcher |-> add_unmatched_prefix(m, prefix),
          calls |-> <<<<"starts_with", prefix>>, <<"add_unmatched_prefix", prefix>>>>,
          ret |-> [type |-> "Scope", prefix |-> prefix]]
    ELSE [matcher |-> add_unmatched_prefix(m, prefix),
          calls |-> <<<<"starts_with", prefix>>, <<"add_unmatched_prefix", prefix>>>>,
          ret |-> None]

with_prefix_NoGuard(m, prefix) ==
    [matcher |-> m, calls |-> <<>>, ret |-> [type |-> "Scope", prefix |-> prefix]]

with_prefix(m, prefix) ==
    IF starts_with(m, prefix)
    THEN [matcher |-> m, calls |-> <<<<"starts_with", prefix>>>>,
          ret |-> [type |-> "Scope", prefix |-> prefix]]
    ELSE [matcher |-> add_unmatched_prefix(m, prefix),
          calls |-> <<<<"starts_with", prefix>>, <<"add_unmatched_prefix", prefix>>>>,
          ret |-> None]

-----------------------------------------------------------------------------
(* PrefixedExecutor *)

add_prefix_Separator(prefix, cmd) == prefix \o <<"/">> \o cmd

add_prefix(prefix, cmd) == prefix \o cmd

\* The operations each handle offers to calling code
Methods(handle) ==
    IF handle = "CliExecutor"
    THEN {"close", "with_prefix", "run_command", "run_property", "get_terminal"}
    ELSE {"run_command", "run_property"}

Handle == IF scope = <<>> THEN "CliExecutor" ELSE "PrefixedExecutor"

-----------------------------------------------------------------------------
(* Inputs *)

Lines ==
    { <<"d", "/", "l">>,
      <<"d", "/", "l", " ", "1">>,
      <<"d", "/", "l", "/", "g", "e", "t">>,
      <<"d", "/", "l", "/", "g", "e", "t", " ", "1">>,
      <<"d", "/", "l", "/", "s", "e", "t">>,
      <<"d", "/", "l", "/", "s", "e", "t", " ", "1", "2">>,
      <<"d", "/", "l", "/", "s", "e", "t", " ", "2", " ">>,
      <<"d", "/", "l", "/", "s", "e", "t", " ", "x">>,
      <<"l", "/", "s", "e", "t", " ", "x">>,
      <<"n", "/", "i", "/", "g", "e", "t">>,
      <<"d", "/">> }

Names == { <<"l">>, <<"d", "/", "l">>, <<"/", "l">>,
           <<"d", "/", "l", "/", "g", "e", "t">> }

Prefixes == { <<"d", "/">>, <<"d">>, <<"n", "/", "x">> }

-----------------------------------------------------------------------------
(* State machine: one action per operation calling code can perform *)

\* The record of a call: what was asked, what came back, the engine calls and
\* parser invocations it made, and whether it repeats the call before it.
Call(op, name, parser, r) ==
    [op |-> op, name |-> name, parser |-> parser, ret |-> r.ret,
     calls |-> r.calls, parsed |-> r.parsed, scoped |-> scope # <<>>,
     repeat |-> /\ last.op = op /\ last.name = name
                /\ last.parser = parser /\ last.scoped = (scope # <<>>)]

Other(op, name, ret, scoped) ==
    [op |-> op, name |-> name, parser |-> "", ret |-> ret,
     calls |-> <<>>, parsed |-> <<>>, scoped |-> scoped, repeat |-> FALSE]

\* a call in which the parser was invoked and rejected the text
ParseFailed(r) == r.parsed # <<>> /\ r.ret.type = "None"

Counted(r) == IF r.ret.type \in {"Command", "Get", "Set"} THEN 1 ELSE 0

Init ==
    /\ matcher \in { FreshMatcher(l) : l \in Lines }
    /\ terminal = <<>>
    /\ scope = <<>>
    /\ phase = "open"
    /\ last = Other("new", <<>>, None, FALSE)
    /\ nctx = 0
    /\ failed = FALSE
    /\ ncalls = 0

Step == ncalls < MaxCalls /\ ncalls' = ncalls + 1

Apply(op, name, parser, r) ==
    /\ matcher' = r.matcher
    /\ terminal' = r.terminal
    /\ last' = Call(op, name, parser, r)
    /\ nctx' = nctx + Counted(r)
    /\ failed' = (failed \/ ParseFailed(r))
    /\ UNCHANGED <<scope, phase>>

RunCommand(cmd) ==
    /\ phase = "open" /\ scope = <<>> /\ Step
    /\ Apply("run_command", cmd, "", run_command(matcher, terminal, cmd))

RunProperty(id, parser) ==
    /\ phase = "open" /\ scope = <<>> /\ Step
    /\ Apply("run_property", id, parser, run_property(matcher, terminal, id, parser))

WithPrefix(prefix) ==
    /\ phase = "open" /\ scope = <<>> /\ Step
    /\ LET r == with_prefix(matcher, prefix)
       IN  /\ matcher' = r.matcher
           /\ scope' = IF r.ret.type = "Scope" THEN <<prefix>> ELSE <<>>
           /\ last' = [Other("with_prefix", prefix, r.ret, FALSE)
                          EXCEPT !.calls = r.calls]
    /\ UNCHANGED <<terminal, phase, nctx, failed>>

PrefixedRunCommand(cmd) ==
    /\ phase = "open" /\ scope # <<>> /\ Step
    /\ Apply("run_command", cmd, "",
             run_command(matcher, terminal, add_prefix(scope[1], cmd)))

PrefixedRunProperty(id, parser) ==
    /\ phase = "open" /\ scope # <<>> /\ Step
    /\ Apply("run_property", id, parser,
             run_property(matcher, terminal, add_prefix(scope[1], id), parser))

\* the PrefixedExecutor goes out of scope, ending its borrow of the executor
DropPrefixed ==
    /\ phase = "open" /\ scope # <<>> /\ Step
    /\ scope' = <<>>
    /\ last' = Other("drop", scope[1], None, TRUE)
    /\ UNCHANGED <<matcher, terminal, phase, nctx, failed>>

close ==
    /\ phase = "open" /\ scope = <<>> /\ Step
    /\ phase' = "closed"
    /\ last' = Other("close", <<>>, [type |-> "Matcher", matcher |-> matcher], FALSE)
    /\ UNCHANGED <<matcher, terminal, scope, nctx, failed>>

\* CliExecutor::new for the next line, on a fresh matcher or the one handed back
new(m) ==
    /\ phase = "closed" /\ Step
    /\ phase' = "open"
    /\ matcher' = m
    /\ nctx' = 0
    /\ failed' = FALSE
    /\ last' = Other("new", <<>>, None, FALSE)
    /\ UNCHANGED <<terminal, scope>>

Next ==
    \/ \E cmd \in Names : RunCommand(cmd)
    \/ \E id \in Names, parser \in Parsers : RunProperty(id, parser)
    \/ \E prefix \in Prefixes : WithPrefix(prefix)
    \/ \E cmd \in Names : PrefixedRunCommand(cmd)
    \/ \E id \in Names, parser \in Parsers : PrefixedRunProperty(id, parser)
    \/ DropPrefixed
    \/ close
    \/ \E m \in {matcher} \cup { FreshMatcher(l) : l \in Lines } : new(m)

Spec == Init /\ [][Next]_vars

-----------------------------------------------------------------------------
(* Properties *)

\* A step that is a call of op
IsCall(op) == ncalls' = ncalls + 1 /\ last'.op = op

\* The name the root Executor is given by the call just made
Dispatched == IF last'.scoped THEN scope[1] \o last'.name ELSE last'.name

\* What the engine answers, from the state before the call, to "{id}/get"
\* and then, from the state that leaves, to "{id}/set"
EngineGet(id) == match_cmd_str(matcher, id \o GetSuffix)

EngineSet(id) == match_cmd_str(EngineGet(id).matcher, id \o SetSuffix)

Captured(r) == get_state(r.matcher).args

SetRejected(id, parser) ==
    /\ EngineGet(id).progress # "MatchFound"
    /\ EngineSet(id).progress = "MatchFound"
    /\ ~input(parser, Trim(Captured(EngineSet(id)))).ok

\* C1: when the engine reports MatchFound for "{id}/set" and the parser
\* rejects the trimmed captured text, run_property returns no context and the
\* sink receives exactly one line, "Couldn't parse the value: " followed by
\* the parser's error, and nothing else.
C1_ParseFailureReported ==
    [][(IsCall("run_property") /\ SetRejected(Dispatched, last'.parser)) =>
         /\ last'.ret = None
         /\ terminal' = Append(terminal,
                "Couldn't parse the value: " \o
                input(last'.parser, Trim(Captured(EngineSet(Dispatched)))).err)]_vars

C1_Witness ==
    /\ last.op = "run_property" /\ last.parser = "int"
    /\ last.parsed = << <<"x">> >>
    /\ last.ret = None
    /\ terminal = <<"Couldn't parse the value: invalid digit">>

\* C2: "{id}/get" is tried first; when the engine reports MatchFound for it
\* the call returns a Get context with the captured text untrimmed, the
\* parser is not invoked and "{id}/set" is not submitted to the engine.
C2_GetFirst ==
    [][(IsCall("run_property") /\ EngineGet(Dispatched).progress = "MatchFound") =>
         /\ last'.ret.type = "Get"
         /\ last'.ret.args = Captured(EngineGet(Dispatched))
         /\ last'.ret.id = Dispatched
         /\ last'.parsed = <<>>
         /\ last'.calls = << <<"match_cmd_str", Dispatched \o GetSuffix>> >>
         /\ matcher' = EngineGet(Dispatched).matcher
         /\ terminal' = terminal]_vars

C2_Witness ==
    /\ last.op = "run_property" /\ last.parser = "int"
    /\ last.ret.type = "Get"
    /\ last.ret.args = <<" ", "1">>
    /\ ~input("int", last.ret.args).ok

\* C3: run_command returns a context exactly when match_cmd_str reports
\* MatchFound, its argument text is the one held in the engine's result
\* state, and every other outcome yields nothing.
C3_CommandIffMatchFound ==
    [][IsCall("run_command") =>
         LET r == match_cmd_str(matcher, Dispatched)
         IN  /\ (last'.ret.type = "Command") <=> (r.progress = "MatchFound")
             /\ (last'.ret.type # "Command") => (last'.ret = None)
             /\ (last'.ret.type = "Command") =>
                   /\ get_state(matcher').kind = "Match"
                   /\ last'.ret.args = get_state(matcher').args
             /\ last'.calls = << <<"match_cmd_str", Dispatched>> >>]_vars

C3_Witness ==
    /\ last.op = "run_command" /\ last.ret.type = "Command"
    /\ last.ret.args = <<" ", "1">>
    /\ ncalls >= 2

\* C4: a Set context is returned only when "{id}/set" was reported MatchFound
\* and the parser accepted the trimmed captured text; it holds the parser's
\* value and the trimmed text, and no call in which the parser failed, nor
\* any call after one on the same line, returns a Set context.
C4_SetOnlyAfterParse ==
    (last.ret.type = "Set") =>
        /\ last.op = "run_property"
        /\ get_state(matcher).kind = "Match"
        /\ last.ret.args = Trim(get_state(matcher).args)
        /\ last.parsed = <<last.ret.args>>
        /\ input(last.parser, last.ret.args).ok
        /\ last.ret.value = input(last.parser, last.ret.args).val
        /\ last.calls[Len(last.calls)] = <<"match_cmd_str", last.ret.id \o SetSuffix>>
        /\ LineMatches(matcher.line, last.ret.id \o SetSuffix)
        /\ ~failed

C4_Witness ==
    /\ last.ret.type = "Set" /\ last.parser = "int"
    /\ last.ret.value = 2
    /\ get_state(matcher).args = <<" ", "2", " ">>

\* C5: with_prefix returns a scope exactly when starts_with(prefix) is true;
\* when false it returns nothing and add_unmatched_prefix(prefix) is called
\* exactly once, when true it is not called.
C5_WithPrefixGuard ==
    [][IsCall("with_prefix") =>
         LET prefix == last'.name
             notes == { i \in 1..Len(last'.calls) :
                          last'.calls[i][1] = "add_unmatched_prefix" }
         IN  /\ (last'.ret.type = "Scope") <=> StartsWith(matcher.line, prefix)
             /\ (last'.ret.type = "Scope") =>
                   /\ scope' = <<prefix>> /\ notes = {} /\ matcher' = matcher
             /\ (last'.ret.type # "Scope") =>
                   /\ last'.ret = None /\ scope' = <<>>
                   /\ Cardinality(notes) = 1
                   /\ matcher' = [matcher EXCEPT !.unmatched = Append(@, prefix)]]_vars

C5_Witness ==
    /\ last.op = "with_prefix" /\ last.ret = None
    /\ last.name = <<"d", "/">>
    /\ matcher.line = <<"n", "/", "i", "/", "g", "e", "t">>
    /\ matcher.unmatched = << <<"d", "/">> >>

\* C6: a call through a Prefixed Executor with prefix p has the returned
\* context, engine calls, engine state and sink output of the same call with
\* the name p+n (no separator) on the unscoped Executor from the same state.
C6_ScopeTransparent ==
    [][((IsCall("run_command") \/ IsCall("run_property")) /\ last'.scoped) =>
         LET direct == IF last'.op = "run_command"
                       THEN run_command(matcher, terminal, scope[1] \o last'.name)
                       ELSE run_property(matcher, terminal,
                                         scope[1] \o last'.name, last'.parser)
         IN  /\ last'.ret = direct.ret
             /\ last'.calls = direct.calls
             /\ last'.parsed = direct.parsed
             /\ matcher' = direct.matcher
             /\ terminal' = direct.terminal]_vars

C6_Witness ==
    /\ last.scoped /\ last.op = "run_property"
    /\ scope = << <<"d">> >> /\ last.name = <<"/", "l">>
    /\ last.ret.type = "Set"
    /\ last.ret.id = <<"d", "/", "l">>

\* C7 as stated: after a /set parse failure the caller sees what it would
\* see for a non-match, and the matcher state records no match for the line.
C7_Original ==
    ParseFailed(last) => get_state(matcher).kind # "Match"

\* C7 amended: a /set parse failure returns no context and leaves the
\* Executor open, but it is not a non-match: the sink has received the
\* diagnostic and the engine's result state keeps the Match recorded for
\* "{id}/set", which is also what close() hands back.
C7_ParseFailureKeepsMatch ==
    /\ ParseFailed(last) =>
          /\ phase = "open"
          /\ get_state(matcher).kind = "Match"
          /\ Trim(get_state(matcher).args) = last.parsed[1]
          /\ terminal # <<>>
    /\ failed => get_state(matcher).kind = "Match"
    /\ (failed /\ last.op = "close") => get_state(last.ret.matcher).kind = "Match"

C7_Witness ==
    /\ failed /\ last.op = "close"
    /\ get_state(last.ret.matcher) = Match(<<" ", "x">>)
    /\ Len(terminal) = 1

\* C8: a run_command or run_property call for which the engine reports no
\* match returns nothing and leaves the matcher state and the sink as they
\* were, so evaluating the same candidate again changes nothing.
C8_NoMatchLeavesState ==
    [][(\/ /\ IsCall("run_command")
           /\ match_cmd_str(matcher, Dispatched).progress # "MatchFound"
        \/ /\ IsCall("run_property")
           /\ EngineGet(Dispatched).progress # "MatchFound"
           /\ EngineSet(Dispatched).progress # "MatchFound") =>
         /\ last'.ret = None
         /\ matcher' = matcher
         /\ terminal' = terminal
         /\ nctx' = nctx]_vars

C8_Witness ==
    /\ last.repeat /\ last.op = "run_property" /\ last.ret = None
    /\ last.parsed = <<>>
    /\ get_state(matcher) = NoMatchFound
    /\ StartsWith(last.name \o SetSuffix, matcher.line)

\* C9: between new and close at most one call returns an execution context.
C9_AtMostOneContext == nctx <= 1

C9_Witness ==
    /\ nctx = 1 /\ last.repeat /\ last.ret = None
    /\ last.op = "run_command"
    /\ LineMatches(matcher.line, last.name)

\* C10 as stated: a live Prefixed Executor can itself be asked with_prefix.
C10_Original ==
    (scope # <<>>) => "with_prefix" \in Methods(Handle)

\* C10 amended: prefix scopes do not nest.  A Prefixed Executor offers only
\* run_command and run_property; there is at most one layer, created by
\* with_prefix on the root Executor only when the line starts with the prefix,
\* and calls through it make no further guard check.
C10_SingleScope ==
    /\ Len(scope) <= 1
    /\ (scope # <<>>) =>
          /\ Methods(Handle) = {"run_command", "run_property"}
          /\ StartsWith(matcher.line, scope[1])
    /\ last.scoped => \A i \in 1..Len(last.calls) : last.calls[i][1] = "match_cmd_str"

C10_Witness ==
    /\ scope = << <<"d", "/">> >>
    /\ last.scoped /\ last.op = "run_command" /\ last.name = <<"l">>
    /\ last.ret.type = "Command"

====
